---- MODULE Spec2Model ----
(***************************************************************************)
(* typederror: TError<E>, a wrapper around anyhow::Error that carries a    *)
(* compile-time tag E naming the primary error type (src/src/error.rs).    *)
(*                                                                         *)
(* An anyhow::Error is modelled as a record [root, frames]: the value the  *)
(* error was created from and the context values attached afterwards,      *)
(* oldest first.  Every value carries the name of its Rust type in `ty`,   *)
(* which is what a downcast compares.                                       *)
(***************************************************************************)
EXTENDS Integers, Sequences, FiniteSets, TLC

\* Largest number of context frames a chain is grown to.
MaxFrames == 2

-----------------------------------------------------------------------------
(* Values                                                                  *)

\* A String (the result of to_string() / format!).
Str(s) == [ty |-> "String", variant |-> "", text |-> s, inner |-> <<>>]

\* A &'static str literal.
StaticStr(s) == [ty |-> "&str", variant |-> "", text |-> s, inner |-> <<>>]

\* std::io::Error as produced by std::fs::read_to_string on a missing path.
IoNotFound == [ty |-> "io::Error", variant |-> "NotFound",
               text |-> "No such file or directory", inner |-> <<>>]

\* tests::OtherError
OtherError == [ty |-> "OtherError", variant |-> "", text |-> "", inner |-> <<>>]

\* tests::MyError::One
MyErrorOne == [ty |-> "MyError", variant |-> "One", text |-> "", inner |-> <<>>]

\* tests::MyError::Two(Box<dyn Error + Send + Sync>)
MyErrorTwo(boxed) == [ty |-> "MyError", variant |-> "Two", text |-> "", inner |-> <<boxed>>]

\* tests::MyError::Three(#[from] std::io::Error)
MyErrorThree(io) == [ty |-> "MyError", variant |-> "Three", text |-> "", inner |-> <<io>>]

\* Display of a value: the #[error("...")] attributes of MyError, the
\* Display impl of OtherError, the text of a string or of an io::Error.
DisplayValue(v) ==
    CASE v.ty = "MyError" /\ v.variant = "One"   -> "something went wrong"
      [] v.ty = "MyError" /\ v.variant = "Two"   -> "Error two"
      [] v.ty = "MyError" /\ v.variant = "Three" -> "io error: " \o v.inner[1].text
      [] v.ty = "OtherError"                     -> "OtherError"
      [] OTHER                                   -> v.text

\* std::error::Error::source of a value: #[from] marks the field of
\* MyError::Three as the source; no other value of the model has one.
SourceOf(v) ==
    IF v.ty = "MyError" /\ v.variant = "Three" THEN <<v.inner[1]>> ELSE <<>>

\* context.to_string(): a String holding the Display text of the value.
to_string(c) == Str(DisplayValue(c))

\* Option / Result values.
Some(x) == [kind |-> "Some", val |-> <<x>>]
None    == [kind |-> "None", val |-> <<>>]
Ok(x)   == [kind |-> "Ok", val |-> <<x>>]
Err(x)  == [kind |-> "Err", val |-> <<x>>]

-----------------------------------------------------------------------------
(* anyhow::Error, as used by TError                                        *)

\* anyhow::Error::new(err)
anyhow_new(err) == [root |-> err, frames |-> <<>>]

\* anyhow::anyhow!("{msg}"): an error whose root is the formatted String.
anyhow_msg(msg) == [root |-> Str(msg), frames |-> <<>>]

\* anyhow::Error::context(self, context)
anyhow_context(error, c) == [root |-> error.root, frames |-> Append(error.frames, c)]

Max(S) == CHOOSE x \in S : \A y \in S : y <= x

\* anyhow::Error::downcast_ref::<T>(&self): the newest context value of
\* type T, else the root when it is of type T, else None.
anyhow_downcast_ref(error, T) ==
    LET hits == {i \in 1..Len(error.frames) : error.frames[i].ty = T}
    IN  IF hits # {} THEN Some(error.frames[Max(hits)])
        ELSE IF error.root.ty = T THEN Some(error.root)
        ELSE None

\* anyhow::Error::downcast::<T>(self): Ok(value) as found by downcast_ref,
\* else Err(self) with the error handed back.
anyhow_downcast(error, T) ==
    LET r == anyhow_downcast_ref(error, T)
    IN  IF r.kind = "Some" THEN Ok(r.val[1]) ELSE Err(error)

\* Display of an anyhow::Error: the outermost layer only.
anyhow_Display(error) ==
    IF error.frames # <<>> THEN DisplayValue(error.frames[Len(error.frames)])
    ELSE DisplayValue(error.root)

\* Debug of an anyhow::Error: the outermost layer, then under "Caused by:"
\* every older layer down to the root and the root's own sources.  Modelled
\* as the sequence of the messages in the order they are written (a stack
\* backtrace, printed after them when one was captured, is left out).
anyhow_Debug(error) ==
    LET n == Len(error.frames)
        src == SourceOf(error.root)
    IN  [i \in 1..n |-> DisplayValue(error.frames[n + 1 - i])]
        \o <<DisplayValue(error.root)>>
        \o [i \in 1..Len(src) |-> DisplayValue(src[i])]

-----------------------------------------------------------------------------
(* TError<E>                                                               *)

\* struct TError<E> { phantom, error }
TError(E, error) == [tag |-> E, error |-> error]

\* impl Display for TError<E>
Display(self) == anyhow_Display(self.error)

\* impl Debug for TError<E>
Debug(self) == anyhow_Debug(self.error)

\* TError::from_anyhow
from_anyhow(E, error) == TError(E, error)

\* TError::from_msg
from_msg(E, msg) == TError(E, anyhow_msg(msg))

\* try_get rebuilding the returned TError from the error's message.
try_get_from_display(self) ==
    LET r == anyhow_downcast(self.error, self.tag)
    IN  IF r.kind = "Ok" THEN r
        ELSE Err(from_msg(self.tag, anyhow_Display(r.val[1])))

\* TError::try_get
try_get(self) ==
    LET r == anyhow_downcast(self.error, self.tag)
    IN  IF r.kind = "Ok" THEN r ELSE Err(TError(self.tag, r.val[1]))

\* get_ref looking at the outermost layer of the error only.
get_ref_outermost(self) ==
    LET n == Len(self.error.frames)
        top == IF n > 0 THEN self.error.frames[n] ELSE self.error.root
    IN  IF top.ty = self.tag THEN Some(top) ELSE None

\* get_ref looking at the root cause of the error only.
get_ref_root_cause(self) ==
    IF self.error.root.ty = self.tag THEN Some(self.error.root) ELSE None

\* TError::get_ref
get_ref(self) == anyhow_downcast_ref(self.error, self.tag)

\* TError::downcast_ref::<T>
downcast_ref(self, T) == anyhow_downcast_ref(self.error, T)

\* TError::downcast::<T>
downcast(self, T) ==
    LET r == anyhow_downcast(self.error, T)
    IN  IF r.kind = "Ok" THEN r ELSE Err(TError(self.tag, r.val[1]))

\* context putting the new frame under the older ones.
context_prepend(self, c) ==
    TError(self.tag, [root |-> self.error.root, frames |-> <<c>> \o self.error.frames])

\* TError::context
context(self, c) == TError(self.tag, anyhow_context(self.error, c))

\* TError::with_context: the closure f is called, then context.
\* A closure is modelled by the value it yields; `calls` counts its calls.
with_context(self, f) == [out |-> context(self, f.yields), calls |-> 1]

\* change_err rebuilding the error from its message.
change_err_from_display(self, T) == from_msg(T, anyhow_Display(self.error))

\* TError::change_err::<T>
change_err(self, T) == TError(T, self.error)

\* From converting the failure into DST where it can, as terror does.
From_into(err, DST) ==
    TError(DST, anyhow_new(IF err.ty = "io::Error" /\ DST = "MyError"
                           THEN MyErrorThree(err) ELSE err))

\* impl From<SRC> for TError<DST>
From(err, DST) == TError(DST, anyhow_new(err))

\* Result::context attaching the context value itself, not its to_string().
Result_context_typed(self, c, X) ==
    IF self.kind = "Ok" THEN self
    ELSE Err(TError(X, anyhow_context(anyhow_new(self.val[1]), c)))

\* impl Context<T, E, X> for Result<T, E>: context.  map_err leaves an Ok
\* untouched; an Err is wrapped by anyhow::Error::new and given the
\* context's to_string() as its one frame.
Result_context(self, c, X) ==
    IF self.kind = "Ok" THEN self
    ELSE Err(TError(X, anyhow_context(anyhow_new(self.val[1]), to_string(c))))

\* impl Context<T, E, X> for Result<T, E>: with_context is
\* self.context(f()): the argument f() is evaluated before context runs.
Result_with_context(self, f, X) ==
    [out |-> Result_context(self, f.yields, X), calls |-> 1]

\* impl DefaultError for MyError: MyError::Two(err.into())
DefaultError_from_anyhow(E, err) ==
    CASE E = "MyError" -> MyErrorTwo(err)

\* get going to the default error without trying the downcast.
get_always_default(self) == DefaultError_from_anyhow(self.tag, self.error)

\* TError::get (E: DefaultError)
get(self) ==
    LET r == try_get(self)
    IN  IF r.kind = "Ok" THEN r.val[1]
        ELSE DefaultError_from_anyhow(self.tag, r.val[1].error)

\* The Into<EOut> conversions among the model's types: the reflexive one
\* and MyError: From<std::io::Error> (#[from] on MyError::Three).
HasInto(e, EOut) == e.ty = EOut \/ (e.ty = "io::Error" /\ EOut = "MyError")

Into(e, EOut) == IF e.ty = EOut THEN e ELSE MyErrorThree(e)

\* terror wrapping the failure as it is, without e.into().
terror_without_into(self, EOut) ==
    IF self.kind = "Ok" THEN self
    ELSE Err(TError(EOut, anyhow_new(self.val[1])))

\* impl IntoTError<T, EOut> for Result<T, EIn>: terror
terror(self, EOut) ==
    IF self.kind = "Ok" THEN self
    ELSE Err(TError(EOut, anyhow_new(Into(self.val[1], EOut))))

-----------------------------------------------------------------------------
(* Inputs                                                                  *)

\* The unit value ().
Unit == [ty |-> "()", variant |-> "", text |-> "", inner |-> <<>>]

\* Failure values of types implementing std::error::Error.
ErrorValues == {MyErrorOne, MyErrorThree(IoNotFound), IoNotFound, OtherError}

\* Values given as context (Display + Send + Sync + 'static).
ContextValues == {StaticStr("failed"), StaticStr("add more context"),
                  MyErrorOne, MyErrorTwo(anyhow_msg("other error"))}

\* Closures given to with_context, each modelled by the value it yields.
Closures == {[yields |-> c] : c \in ContextValues}

\* Results handed to the extension traits.
Results == {Ok(Unit), Ok(Str("file contents"))} \cup {Err(e) : e \in ErrorValues}

\* anyhow errors handed to from_anyhow (as the terror! macro builds them).
AnyhowErrors == {anyhow_msg("fake error")} \cup {anyhow_new(e) : e \in ErrorValues}

\* Tags a TError is given, and those among them implementing std::error::Error.
Tags == {"MyError", "OtherError", "String"}
ErrorTags == {"MyError", "OtherError"}

\* Tags implementing DefaultError.
DefaultErrorTags == {"MyError"}

\* Types asked for by downcast / downcast_ref.
TypeArgs == {"MyError", "OtherError", "io::Error", "String", "&str"}

-----------------------------------------------------------------------------
(* State: one TError at a time is built, propagated and inspected; the     *)
(* next one is built once the held one has been consumed.                  *)

VARIABLES
    err,      \* <<e>>: the TError held; <<>>: none (not built yet, or consumed)
    before,   \* err as it was when the last operation was called
    op,       \* the last operation
    arg,      \* <<c>>: the context value the last operation was given
    targ,     \* the type parameter the last operation was given
    ret,      \* what the last operation returned
    evals,    \* how often the last operation called its closure
    via,      \* the operation that built the TError
    input,    \* <<r>>: the Result or anyhow::Error it was built from
    built,    \* <<e>>: the TError as it was built
    attached  \* the context values given to context / with_context since

vars == <<err, before, op, arg, targ, ret, evals, via, input, built, attached>>

Ret(kind, x) == [kind |-> kind, val |-> <<x>>]

\* What is held after an operation returned r: the TError of an Err.
Held(r) == IF r.kind = "Err" THEN r.val ELSE <<>>

Init ==
    /\ err = <<>>
    /\ before = <<>>
    /\ op = "init"
    /\ arg = <<>>
    /\ targ = ""
    /\ ret = None
    /\ evals = 0
    /\ via = "init"
    /\ input = <<>>
    /\ built = <<>>
    /\ attached = <<>>

\* A constructor named o, given i, a and T, returned r after n closure calls
\* (the constructors of TError itself are recorded as returning Err(e), the
\* form in which the ? operator and bail! hand the TError on).
Build(o, i, a, T, r, n) ==
    /\ err' = Held(r)
    /\ before' = <<>>
    /\ op' = o
    /\ arg' = a
    /\ targ' = T
    /\ ret' = r
    /\ evals' = n
    /\ via' = o
    /\ input' = i
    /\ built' = Held(r)
    /\ attached' = <<>>

\* An operation named o on the held TError, given a and T, returned r after
\* n closure calls, attached the values cs and left e held.
Apply(o, a, T, r, n, cs, e) ==
    /\ err' = e
    /\ before' = err
    /\ op' = o
    /\ arg' = a
    /\ targ' = T
    /\ ret' = r
    /\ evals' = n
    /\ attached' = attached \o cs
    /\ UNCHANGED <<via, input, built>>

\* Err(e)? in a function returning Result<_, TError<DST>>
DoFrom ==
    /\ err = <<>>
    /\ \E e \in ErrorValues, DST \in ErrorTags :
           Build("From", <<Err(e)>>, <<>>, DST, Err(From(e, DST)), 0)

DoFromAnyhow ==
    /\ err = <<>>
    /\ \E a \in AnyhowErrors, E \in Tags :
           Build("from_anyhow", <<a>>, <<>>, E, Err(from_anyhow(E, a)), 0)

DoFromMsg ==
    /\ err = <<>>
    /\ \E E \in Tags :
           Build("from_msg", <<>>, <<StaticStr("fake error")>>, E,
                 Err(from_msg(E, "fake error")), 0)

DoTerror ==
    /\ err = <<>>
    /\ \E r \in Results, EOut \in ErrorTags :
           /\ r.kind = "Err" => HasInto(r.val[1], EOut)
           /\ Build("terror", <<r>>, <<>>, EOut, terror(r, EOut), 0)

DoResultContext ==
    /\ err = <<>>
    /\ \E r \in Results, c \in ContextValues, X \in ErrorTags :
           Build("Result::context", <<r>>, <<c>>, X, Result_context(r, c, X), 0)

DoResultWithContext ==
    /\ err = <<>>
    /\ \E r \in Results, f \in Closures, X \in ErrorTags :
           LET res == Result_with_context(r, f, X) IN
           Build("Result::with_context", <<r>>, <<f.yields>>, X, res.out, res.calls)

DoContext ==
    \E c \in ContextValues :
        /\ err # <<>>
        /\ Len(err[1].error.frames) < MaxFrames
        /\ LET e == context(err[1], c) IN
           Apply("context", <<c>>, "", Ret("TError", e), 0, <<c>>, <<e>>)

DoWithContext ==
    \E f \in Closures :
        /\ err # <<>>
        /\ Len(err[1].error.frames) < MaxFrames
        /\ LET res == with_context(err[1], f) IN
           Apply("with_context", <<f.yields>>, "", Ret("TError", res.out),
                 res.calls, <<f.yields>>, <<res.out>>)

DoChangeErr ==
    \E T \in Tags :
        /\ err # <<>>
        /\ LET e == change_err(err[1], T) IN
           Apply("change_err", <<>>, T, Ret("TError", e), 0, <<>>, <<e>>)

DoTryGet ==
    /\ err # <<>>
    /\ LET r == try_get(err[1]) IN
       Apply("try_get", <<>>, "", r, 0, <<>>, Held(r))

DoGetRef ==
    /\ err # <<>>
    /\ Apply("get_ref", <<>>, "", get_ref(err[1]), 0, <<>>, err)

DoDowncastRef ==
    \E T \in TypeArgs :
        /\ err # <<>>
        /\ Apply("downcast_ref", <<>>, T, downcast_ref(err[1], T), 0, <<>>, err)

DoDowncast ==
    \E T \in TypeArgs :
        /\ err # <<>>
        /\ LET r == downcast(err[1], T) IN
           Apply("downcast", <<>>, T, r, 0, <<>>, Held(r))

DoGet ==
    /\ err # <<>>
    /\ err[1].tag \in DefaultErrorTags
    /\ Apply("get", <<>>, "", Ret("Value", get(err[1])), 0, <<>>, <<>>)

Next ==
    \/ DoFrom
    \/ DoFromAnyhow
    \/ DoFromMsg
    \/ DoTerror
    \/ DoResultContext
    \/ DoResultWithContext
    \/ DoContext
    \/ DoWithContext
    \/ DoChangeErr
    \/ DoTryGet
    \/ DoGetRef
    \/ DoDowncastRef
    \/ DoDowncast
    \/ DoGet

Spec == Init /\ [][Next]_vars

-----------------------------------------------------------------------------
(* Properties                                                              *)

\* Whether the chain holds a value of type T, in a frame or as its root.
HoldsType(error, T) ==
    error.root.ty = T \/ \E i \in 1..Len(error.frames) : error.frames[i].ty = T

\* The layers of the held error, oldest first: the root cause and frames it
\* was built with, then the context values attached since.
Layers == <<built[1].error.root>> \o built[1].error.frames \o attached

\* The type the last get_ref / try_get / downcast_ref asked for.
Requested == IF op = "downcast_ref" THEN targ ELSE before[1].tag

\* C1 (as stated): when the root cause is a value v of the tag's type E,
\* get_ref() returns Some(v) whatever context values were attached afterwards.
C1_RootWhateverContext ==
    (op = "get_ref" /\ built[1].error.root.ty = before[1].tag)
        => ret = Some(built[1].error.root)

\* C1 (amended): when the root cause is a value v of the tag's type E and no
\* context value of type E was attached, get_ref() returns Some(v) however
\* many other context values were attached.
C1_RootUnlessSameTypeContext ==
    (/\ op = "get_ref"
     /\ built[1].error.root.ty = before[1].tag
     /\ \A i \in 2..Len(Layers) : Layers[i].ty # before[1].tag)
        => ret = Some(built[1].error.root)

C1_Witness ==
    /\ op = "get_ref"
    /\ via = "From"
    /\ Len(attached) >= 2
    /\ built[1].error.root.ty = before[1].tag
    /\ \A i \in 1..Len(attached) : attached[i].ty # before[1].tag
    /\ ret = Some(input[1].val[1])

\* C2: get_ref(), try_get() and downcast_ref::<T>() return the most recent
\* value of the requested type: the newest layer of that type, searching
\* from the last attached context value down to the root cause.
C2_MostRecentOfType ==
    (op \in {"get_ref", "try_get", "downcast_ref"})
        => LET hits == {i \in 1..Len(Layers) : Layers[i].ty = Requested}
           IN  hits # {} =>
                   /\ ret.kind = (IF op = "try_get" THEN "Ok" ELSE "Some")
                   /\ ret.val = <<Layers[Max(hits)]>>

C2_Witness ==
    /\ op = "get_ref"
    /\ before[1].tag = "MyError"
    /\ built[1].error.root = MyErrorOne
    /\ Len(attached) >= 1
    /\ attached[Len(attached)].ty = "MyError"
    /\ attached[Len(attached)].variant = "Two"
    /\ ret = Some(attached[Len(attached)])

\* The states in which a raw I/O failure went through the blanket From
\* conversion into a TError<MyError> that was then classified as it was.
RawIoPropagated ==
    /\ via = "From"
    /\ input = <<Err(IoNotFound)>>
    /\ attached = <<>>
    /\ op \in {"get_ref", "get"}
    /\ before[1].tag = "MyError"
    /\ built[1].tag = "MyError"

\* C3 (as stated): a raw I/O failure propagated with ? into a
\* TError<MyError> classifies as the variant wrapping I/O failures.
C3_RawIoIsIoVariant ==
    RawIoPropagated => (ret.val # <<>> /\ ret.val[1].variant = "Three")

\* C3 (amended): a raw I/O failure propagated with ? into a TError<MyError>
\* is not converted: get_ref() returns None and get() returns the catch-all
\* variant holding the chain whose root cause is the I/O failure.
C3_RawIoIsCatchAll ==
    RawIoPropagated =>
        /\ op = "get_ref" => ret = None
        /\ op = "get" =>
               /\ ret.val[1].ty = "MyError"
               /\ ret.val[1].variant = "Two"
               /\ ret.val[1].inner = <<[root |-> IoNotFound, frames |-> <<>>]>>

C3_Witness ==
    /\ RawIoPropagated
    /\ op = "get"
    /\ ret.val[1].variant = "Two"

\* C4: Result::with_context(f) calls f only when the Result is an Err:
\* never for an Ok, which is returned unchanged, and once for an Err.
C4_ClosureOnlyOnErr ==
    (op = "Result::with_context")
        => /\ input[1].kind = "Ok" => (evals = 0 /\ ret = input[1])
           /\ input[1].kind = "Err" => evals = 1

\* C5: get() always yields a value of the tag's type E: the most recent
\* value of type E the chain holds if there is one, else the catch-all
\* variant built by from_anyhow from the whole, unchanged chain.
C5_GetIsTotal ==
    (op = "get")
        => LET chain == before[1].error
               vals == <<chain.root>> \o chain.frames
               hits == {i \in 1..Len(vals) : vals[i].ty = before[1].tag}
           IN  /\ ret.kind = "Value"
               /\ ret.val[1].ty = before[1].tag
               /\ hits # {} => ret.val[1] = vals[Max(hits)]
               /\ hits = {} =>
                      /\ ret.val[1].variant = "Two"
                      /\ ret.val[1].inner = <<chain>>
                      /\ chain.root = built[1].error.root
                      /\ chain.frames = built[1].error.frames \o attached

C5_Witness ==
    /\ op = "get"
    /\ ~HoldsType(before[1].error, before[1].tag)
    /\ Len(attached) >= 1
    /\ ret.val[1].variant = "Two"

\* C6: a try_get() (or downcast::<T>()) that finds no value of the type
\* returns Err(c) with c the original: same tag, same root cause, same
\* frames in the same order, hence the same Display and Debug text and the
\* same answer to every later downcast.
C6_FailedRecoveryKeepsAll ==
    (\/ op = "try_get" /\ ~HoldsType(before[1].error, before[1].tag)
     \/ op = "downcast" /\ ~HoldsType(before[1].error, targ))
        => /\ ret.kind = "Err"
           /\ err = ret.val
           /\ LET c == ret.val[1]
                  o == before[1]
              IN  /\ c.tag = o.tag
                  /\ c.error.root = o.error.root
                  /\ c.error.root = built[1].error.root
                  /\ c.error.frames = o.error.frames
                  /\ c.error.frames = built[1].error.frames \o attached
                  /\ Display(c) = Display(o)
                  /\ Debug(c) = Debug(o)
                  /\ \A T \in TypeArgs : downcast_ref(c, T) = downcast_ref(o, T)

C6_Witness ==
    /\ op = "try_get"
    /\ ret.kind = "Err"
    /\ Len(attached) >= 2
    /\ err = before

\* C7: Display shows the newest context value attached (the failure's own
\* message when none was); Debug lists the attached context values newest
\* first, then what the error showed as it was built, which for a TError
\* built from a failure v starts with v's message.
C7_NewestFirst ==
    (err # <<>>)
        => LET e == err[1]
               n == Len(attached)
           IN  /\ Display(e) = (IF n > 0 THEN DisplayValue(attached[n])
                                ELSE Display(built[1]))
               /\ Debug(e) = [i \in 1..n |-> DisplayValue(attached[n + 1 - i])]
                                 \o Debug(built[1])
               /\ via = "From" =>
                      /\ n = 0 => Display(e) = DisplayValue(input[1].val[1])
                      /\ Debug(e)[n + 1] = DisplayValue(input[1].val[1])

C7_Witness ==
    /\ err # <<>>
    /\ via = "From"
    /\ op = "context"
    /\ Len(attached) = 2
    /\ DisplayValue(attached[1]) # DisplayValue(attached[2])
    /\ Display(err[1]) = DisplayValue(attached[2])
    /\ Debug(err[1]) = <<DisplayValue(attached[2]), DisplayValue(attached[1]),
                         DisplayValue(input[1].val[1])>>

\* C8: terror() returns an Ok unchanged, and for Err(e) a TError<EOut> with
\* no context frames whose root cause is e.into(): e itself when it already
\* is an EOut, the variant wrapping e when e is an I/O failure and EOut is
\* MyError; get_ref() on it returns Some of that value.
C8_TerrorConverts ==
    (op = "terror")
        => LET r == input[1] IN
           /\ r.kind = "Ok" => ret = r
           /\ r.kind = "Err" =>
                  /\ ret.kind = "Err"
                  /\ LET t == ret.val[1]
                         e == r.val[1]
                     IN  /\ t.tag = targ
                         /\ t.error.frames = <<>>
                         /\ t.error.root.ty = targ
                         /\ e.ty = targ => t.error.root = e
                         /\ e.ty = "io::Error" =>
                                /\ t.error.root.variant = "Three"
                                /\ t.error.root.inner = <<e>>
                         /\ get_ref(t) = Some(t.error.root)

C8_Witness ==
    /\ op = "terror"
    /\ input = <<Err(IoNotFound)>>
    /\ targ = "MyError"
    /\ get_ref(err[1]).val[1].variant = "Three"

\* C9: Result::context(text) returns an Ok unchanged, and for Err(e) a
\* TError<X> whose root cause is e with exactly one frame, the text: its
\* Display is exactly the text and get_ref() is Some(e) when e is an X.
C9_ResultContext ==
    (op = "Result::context")
        => LET r == input[1] IN
           /\ r.kind = "Ok" => ret = r
           /\ r.kind = "Err" =>
                  /\ ret.kind = "Err"
                  /\ LET t == ret.val[1]
                         e == r.val[1]
                     IN  /\ t.tag = targ
                         /\ t.error.root = e
                         /\ Len(t.error.frames) = 1
                         /\ DisplayValue(t.error.frames[1]) = DisplayValue(arg[1])
                         /\ Display(t) = DisplayValue(arg[1])
                         /\ e.ty = targ => get_ref(t) = Some(e)

C9_Witness ==
    /\ op = "Result::context"
    /\ input = <<Err(MyErrorOne)>>
    /\ arg = <<StaticStr("failed")>>
    /\ targ = "MyError"
    /\ Display(err[1]) = "failed"
    /\ get_ref(err[1]) = Some(MyErrorOne)

\* The observations the API offers on a TError.
Observe(e) ==
    [display |-> Display(e), debug |-> Debug(e), get_ref |-> get_ref(e),
     try_get |-> try_get(e),
     downcast_ref |-> [T \in TypeArgs |-> downcast_ref(e, T)]]

\* C10: change_err::<F>() keeps the root cause and the frames, in order, and
\* changing back to the original tag gives a TError with the same Display,
\* Debug, get_ref, try_get and downcast_ref as the original.
C10_RetagRoundTrip ==
    (op = "change_err")
        => LET o == before[1]
               c == err[1]
               back == change_err(c, o.tag)
           IN  /\ c.tag = targ
               /\ c.error.root = o.error.root
               /\ c.error.frames = o.error.frames
               /\ c.error.root = built[1].error.root
               /\ c.error.frames = built[1].error.frames \o attached
               /\ Observe(back) = Observe(o)

C10_Witness ==
    /\ op = "change_err"
    /\ targ # before[1].tag
    /\ Len(attached) >= 1
    /\ get_ref(before[1]) # get_ref(err[1])

====
